---- MODULE Spec2Model ----
(***************************************************************************)
(* Model of the libmagic binding in src/magic.rs: the flag encoder         *)
(* (combine_flags), the Cookie wrapper around the native magic_t context,  *)
(* its operations, and its destructor.  The native library is modelled by  *)
(* what its entry points are declared to take and return (extern block)    *)
(* and by the behaviour the crate's own tests pin down.                    *)
(***************************************************************************)
EXTENDS Integers, Sequences, FiniteSets

\* ---------------------------------------------------------------- bounds
MaxHandles == 1   \* successful opens in one run
MaxCloses  == 2   \* magic_close invocations counted per reference
MaxLen     == 3   \* length of the flag slices given to combine_flags

\* ------------------------------------------------------------- MagicFlag
MAGIC_NONE              == 0
MAGIC_DEBUG             == 1
MAGIC_SYMLINK           == 2
MAGIC_COMPRESS          == 4
MAGIC_DEVICES           == 8
MAGIC_MIME_TYPE         == 16
MAGIC_CONTINUE          == 32
MAGIC_CHECK             == 64
MAGIC_PRESERVE_ATIME    == 128
MAGIC_RAW               == 256
MAGIC_ERROR             == 512
MAGIC_MIME_ENCODING     == 1024
MAGIC_MIME              == 1040
MAGIC_APPLE             == 2048
MAGIC_NO_CHECK_COMPRESS == 4096
MAGIC_NO_CHECK_TAR      == 8192
MAGIC_NO_CHECK_SOFT     == 16384
MAGIC_NO_CHECK_APPTYPE  == 32768
MAGIC_NO_CHECK_ELF      == 65536
MAGIC_NO_CHECK_TEXT     == 131072
MAGIC_NO_CHECK_CDF      == 262144
MAGIC_NO_CHECK_TOKENS   == 1048576
MAGIC_NO_CHECK_ENCODING == 2097152

MagicFlag ==
  { MAGIC_NONE, MAGIC_DEBUG, MAGIC_SYMLINK, MAGIC_COMPRESS, MAGIC_DEVICES,
    MAGIC_MIME_TYPE, MAGIC_CONTINUE, MAGIC_CHECK, MAGIC_PRESERVE_ATIME,
    MAGIC_RAW, MAGIC_ERROR, MAGIC_MIME_ENCODING, MAGIC_MIME, MAGIC_APPLE,
    MAGIC_NO_CHECK_COMPRESS, MAGIC_NO_CHECK_TAR, MAGIC_NO_CHECK_SOFT,
    MAGIC_NO_CHECK_APPTYPE, MAGIC_NO_CHECK_ELF, MAGIC_NO_CHECK_TEXT,
    MAGIC_NO_CHECK_CDF, MAGIC_NO_CHECK_TOKENS, MAGIC_NO_CHECK_ENCODING }

\* c_int is 32 bits wide, one of them the sign; every flag fits in 22 bits
CIntBits == 32

\* a | b on c_int
RECURSIVE BitOr(_, _)
BitOr(a, b) ==
  IF a = 0 THEN b
  ELSE IF b = 0 THEN a
  ELSE (IF a % 2 = 1 \/ b % 2 = 1 THEN 1 ELSE 0) + 2 * BitOr(a \div 2, b \div 2)

\* vec::foldl(z, flags, |a, b| a | (*b as c_int))
RECURSIVE foldl(_, _)
foldl(z, flags) ==
  IF flags = <<>> THEN z ELSE foldl(BitOr(z, Head(flags)), Tail(flags))

RECURSIVE foldl_add(_, _)
foldl_add(z, flags) ==
  IF flags = <<>> THEN z
  ELSE foldl_add(z + Head(flags), Tail(flags))

combine_flags_add(flags) == foldl_add(0, flags)

combine_flags(flags) == foldl(0, flags)

\* ------------------------------------------------------ string marshaling
NUL  == 0
NULL == <<>>     \* the null pointer; every valid C string holds at least NUL

is_null(p) == p = NULL

\* the bytes a C reader sees behind a char pointer: everything before the
\* first NUL
RECURSIVE CStrBytes(_)
CStrBytes(p) ==
  IF p = <<>> \/ Head(p) = NUL THEN <<>> ELSE <<Head(p)>> \o CStrBytes(Tail(p))

\* core::str::as_c_str: hands the closure the string's buffer, which ends in
\* a NUL; the contents are not inspected
as_c_str(s) == s \o <<NUL>>

\* str::raw::from_c_str: copies the bytes up to the terminator
from_c_str(p) == CStrBytes(p)

None    == [some |-> FALSE, text |-> <<>>]
Some(t) == [some |-> TRUE, text |-> t]

\* ------------------------------------------------------------ test inputs
\* byte strings; 0 is NUL
PngPath     == <<1>>          \* a file that exists (tests::file)
MissingPath == <<2>>          \* "non-existent_file.txt" (tests::file_error)
NulPath     == <<2, 0, 1>>    \* a &str with an interior NUL byte
Paths       == {PngPath, MissingPath, NulPath}
DbPaths     == {PngPath, NulPath}   \* given to check/compile/list/load
Existing    == {PngPath}      \* names the native layer can open

Buffers == {<<>>, <<3, 0>>}

OptionInputs == { <<MAGIC_NONE>>, <<MAGIC_MIME_TYPE, MAGIC_MIME_ENCODING>> }

\* --------------------------------------------------------- native library
\* texts the native layer produces (bytes, none of them NUL)
T_FILE == 10     \* "PNG image data, ..." / "image/png" / "charset=binary"
T_BUF  == 20     \* "Python script, ..."  / "text/x-python"
T_SEP  == 7      \* "; "
T_OPEN == 9      \* "cannot open `"
T_INT  == 8      \* an error raised inside the native layer
T_DB   == 6      \* a signature database that cannot be used

HasBit(mask, bit) == (mask \div bit) % 2 = 1

\* description as selected by the context's mask (tests::file, tests::buffer)
DescText(mask, base) ==
  IF HasBit(mask, MAGIC_MIME_TYPE) /\ HasBit(mask, MAGIC_MIME_ENCODING)
  THEN <<base + 1, T_SEP, base + 2>>
  ELSE IF HasBit(mask, MAGIC_MIME_TYPE) THEN <<base + 1>>
  ELSE IF HasBit(mask, MAGIC_MIME_ENCODING) THEN <<base + 2>>
  ELSE <<base>>

CannotOpen(name) == <<T_OPEN>> \o name \o <<NUL>>
BadDatabase(name) == <<T_DB>> \o name \o <<NUL>>
InternalErr      == <<T_INT, NUL>>

NULLREF == 0
FreshCtx(mask) == [closes |-> 0, flags |-> mask, err |-> NULL]

\* magic_open(flags) -> *Magic : a new context, or null when the native
\* layer cannot allocate one (nd = FALSE)
magic_open(mask, nd, allocated) ==
  IF nd THEN [ret |-> allocated + 1, ctx |-> FreshCtx(mask)]
  ELSE [ret |-> NULLREF, ctx |-> FreshCtx(0)]

\* magic_close(cookie)
magic_close(ctx) == [ctx EXCEPT !.closes = @ + 1]

\* A context that was closed is freed memory: what an entry point returns
\* on it is not defined, nd picks the outcome.  On an open context nd picks
\* whether magic_buffer and magic_setflags fail inside the native layer.

\* magic_error(cookie) -> *c_char
magic_error(ctx, nd) ==
  IF ctx.closes > 0
  THEN [ret |-> IF nd THEN NULL ELSE InternalErr, ctx |-> ctx, cause |-> "ub"]
  ELSE [ret |-> ctx.err, ctx |-> ctx, cause |-> "none"]

\* magic_file(cookie, filename) -> *c_char
magic_file(ctx, filename, nd) ==
  IF ctx.closes > 0
  THEN [ret |-> IF nd THEN DescText(ctx.flags, T_FILE) \o <<NUL>> ELSE NULL,
        ctx |-> ctx, cause |-> "ub"]
  ELSE IF CStrBytes(filename) \notin Existing
  THEN [ret |-> NULL,
        ctx |-> [ctx EXCEPT !.err = CannotOpen(CStrBytes(filename))],
        cause |-> "open"]
  ELSE [ret |-> DescText(ctx.flags, T_FILE) \o <<NUL>>,
        ctx |-> [ctx EXCEPT !.err = NULL], cause |-> "none"]

\* magic_buffer(cookie, buffer, length) -> *c_char
magic_buffer(ctx, buffer, length, nd) ==
  IF ctx.closes > 0
  THEN [ret |-> IF nd THEN DescText(ctx.flags, T_BUF) \o <<NUL>> ELSE NULL,
        ctx |-> ctx, cause |-> "ub"]
  ELSE IF ~nd
  THEN [ret |-> NULL, ctx |-> [ctx EXCEPT !.err = InternalErr],
        cause |-> "internal"]
  ELSE [ret |-> DescText(ctx.flags, T_BUF + 3 * length) \o <<NUL>>,
        ctx |-> [ctx EXCEPT !.err = NULL], cause |-> "none"]

\* magic_setflags(cookie, flags) -> c_int : 0, or -1 when the native layer
\* rejects the mask and keeps the old one
magic_setflags(ctx, mask, nd) ==
  IF ctx.closes > 0
  THEN [ret |-> IF nd THEN 0 ELSE -1, ctx |-> ctx, cause |-> "ub"]
  ELSE IF ~nd
  THEN [ret |-> -1, ctx |-> ctx, cause |-> "internal"]
  ELSE [ret |-> 0, ctx |-> [ctx EXCEPT !.flags = mask], cause |-> "none"]

\* magic_check / magic_compile / magic_list / magic_load share one shape:
\* (cookie, filename) -> c_int, 0 on success and -1 on failure
native_admin(ctx, filename, nd) ==
  IF ctx.closes > 0
  THEN [ret |-> IF nd THEN 0 ELSE -1, ctx |-> ctx, cause |-> "ub"]
  ELSE IF CStrBytes(filename) \notin Existing
  THEN [ret |-> -1,
        ctx |-> [ctx EXCEPT !.err = BadDatabase(CStrBytes(filename))],
        cause |-> "open"]
  ELSE [ret |-> 0, ctx |-> [ctx EXCEPT !.err = NULL], cause |-> "none"]

magic_check(ctx, filename, nd)   == native_admin(ctx, filename, nd)
magic_compile(ctx, filename, nd) == native_admin(ctx, filename, nd)
magic_list(ctx, filename, nd)    == native_admin(ctx, filename, nd)
magic_load(ctx, filename, nd)    == native_admin(ctx, filename, nd)

\* ------------------------------------------------------------------ state
VARIABLES
  cookies,   \* the Cookie values: [state, cookie], cookie the *Magic it owns
  magic,     \* native contexts by reference: [closes, flags, err]
  allocated, \* number of contexts magic_open has handed out
  last,      \* the most recent call: arguments, what crossed the ABI, result
  hist,      \* per Cookie: the filename of the most recent call made on it,
             \* when that was a file call the native layer failed because
             \* it could not open the path; "other" after any other call
  cf_flags,  \* combine_flags on its own: the slice given
  cf_mask,   \*   the mask returned
  cf_pc      \*   "start" | "done"

vars == <<cookies, magic, allocated, last, hist, cf_flags, cf_mask, cf_pc>>

Handles == 1 .. MaxHandles
Refs    == 0 .. MaxHandles

NoCall ==
  [op |-> "none", h |-> 0, arg |-> <<>>, rkind |-> "unit",
   cref |-> 0, cstr |-> <<>>, clen |-> 0, cmask |-> 0,
   nptr |-> <<>>, nint |-> 0, nref |-> 0,
   result |-> None, ok |-> FALSE,
   ncalls |-> 0, preCloses |-> 0, preFlags |-> 0, cause |-> "none"]

OtherHist == [op |-> "other", arg |-> <<>>]

SeqsUpTo(S, n) == UNION {[1 .. k -> S] : k \in 0 .. n}

InitCookies ==
  /\ cookies = [h \in Handles |-> [state |-> "unborn", cookie |-> NULLREF]]
  /\ magic = [r \in Refs |-> FreshCtx(0)]
  /\ allocated = 0
  /\ last = NoCall
  /\ hist = [h \in Handles |-> OtherHist]
  /\ cf_mask = 0
  /\ cf_pc = "start"

Init ==
  /\ InitCookies
  /\ cf_flags = <<>>

CfUnchanged == UNCHANGED <<cf_flags, cf_mask, cf_pc>>

Live(h) == cookies[h].state = "live"

\* the outcomes of a native call that does not fail on its own: one on an
\* open context, either on a closed one
Outcomes(h) ==
  IF magic[cookies[h].cookie].closes > 0 THEN BOOLEAN ELSE {TRUE}

\* ------------------------------------------------------------ Cookie::open
open_wrap_always(cookie) == [some |-> TRUE, cookie |-> cookie]

\* if is_null(cookie) { None } else { Some(Cookie{cookie: cookie,}) }
open_wrap(cookie) ==
  IF cookie = NULLREF THEN [some |-> FALSE, cookie |-> NULLREF]
  ELSE [some |-> TRUE, cookie |-> cookie]

open(flags, nd) ==
  LET mask == combine_flags(flags)
      n    == magic_open(mask, nd, allocated)
      w    == open_wrap(n.ret)
      free == {h \in Handles : cookies[h].state = "unborn"}
      h    == IF free = {} THEN 0 ELSE CHOOSE x \in free : \A y \in free : x <= y
  IN /\ free # {}
     /\ nd => allocated < MaxHandles
     /\ allocated' = IF n.ret = NULLREF THEN allocated ELSE n.ret
     /\ magic' = IF n.ret = NULLREF THEN magic
                 ELSE [magic EXCEPT ![n.ret] = n.ctx]
     /\ cookies' = IF w.some
                   THEN [cookies EXCEPT ![h] = [state |-> "live", cookie |-> w.cookie]]
                   ELSE cookies
     /\ last' = [NoCall EXCEPT !.op = "open", !.h = IF w.some THEN h ELSE 0,
                   !.arg = flags, !.rkind = "option", !.cmask = mask,
                   !.nref = n.ret, !.result = [some |-> w.some, text |-> <<>>],
                   !.ncalls = 1]
     /\ UNCHANGED hist
     /\ CfUnchanged

\* ------------------------------------------------- string-returning calls
file_ret_some(s) == Some(from_c_str(s))

\* if is_null(s) { None } else { Some(str::raw::from_c_str(s)) }
file_ret(s) == IF is_null(s) THEN None ELSE Some(from_c_str(s))

buffer_ret(s) == IF is_null(s) THEN None ELSE Some(from_c_str(s))

error_ret_none(s) == None

error_ret(s) == IF is_null(s) THEN None ELSE Some(from_c_str(s))

file(h, filename, nd) ==
  LET cookie == cookies[h].cookie
      cstr   == as_c_str(filename)
      n      == magic_file(magic[cookie], cstr, nd)
  IN /\ Live(h)
     /\ magic' = [magic EXCEPT ![cookie] = n.ctx]
     /\ last' = [NoCall EXCEPT !.op = "file", !.h = h, !.arg = filename,
                   !.rkind = "option", !.cref = cookie, !.cstr = cstr,
                   !.nptr = n.ret, !.result = file_ret(n.ret), !.ncalls = 1,
                   !.preCloses = magic[cookie].closes,
                   !.preFlags = magic[cookie].flags, !.cause = n.cause]
     /\ hist' = [hist EXCEPT ![h] = IF n.cause = "open"
                                     THEN [op |-> "file", arg |-> filename]
                                     ELSE OtherHist]
     /\ UNCHANGED <<cookies, allocated>>
     /\ CfUnchanged

\* buffer.len() as size_t
buffer_len(buffer) == Len(buffer)

buffer(h, buf, nd) ==
  LET cookie == cookies[h].cookie
      length == buffer_len(buf)
      n      == magic_buffer(magic[cookie], buf, length, nd)
  IN /\ Live(h)
     /\ magic' = [magic EXCEPT ![cookie] = n.ctx]
     /\ last' = [NoCall EXCEPT !.op = "buffer", !.h = h, !.arg = buf,
                   !.rkind = "option", !.cref = cookie, !.cstr = buf,
                   !.clen = length,
                   !.nptr = n.ret, !.result = buffer_ret(n.ret), !.ncalls = 1,
                   !.preCloses = magic[cookie].closes,
                   !.preFlags = magic[cookie].flags, !.cause = n.cause]
     /\ hist' = [hist EXCEPT ![h] = OtherHist]
     /\ UNCHANGED <<cookies, allocated>>
     /\ CfUnchanged

error(h, nd) ==
  LET cookie == cookies[h].cookie
      n      == magic_error(magic[cookie], nd)
  IN /\ Live(h)
     /\ magic' = [magic EXCEPT ![cookie] = n.ctx]
     /\ last' = [NoCall EXCEPT !.op = "error", !.h = h,
                   !.rkind = "option", !.cref = cookie,
                   !.nptr = n.ret, !.result = error_ret(n.ret), !.ncalls = 1,
                   !.preCloses = magic[cookie].closes,
                   !.preFlags = magic[cookie].flags, !.cause = n.cause]
     /\ hist' = [hist EXCEPT ![h] = OtherHist]
     /\ UNCHANGED <<cookies, allocated>>
     /\ CfUnchanged

\* -------------------------------------------------------- Cookie::setflags
setflags_arg_first(flags) == IF flags = <<>> THEN 0 ELSE Head(flags)

\* the mask handed to magic_setflags: combine_flags(flags)
setflags_arg(flags) == combine_flags(flags)

\* magic_setflags(self.cookie, combine_flags(flags)); the c_int it returns
\* is dropped and the method returns ()
setflags(h, flags, nd) ==
  LET cookie == cookies[h].cookie
      mask   == setflags_arg(flags)
      n      == magic_setflags(magic[cookie], mask, nd)
  IN /\ Live(h)
     /\ magic' = [magic EXCEPT ![cookie] = n.ctx]
     /\ last' = [NoCall EXCEPT !.op = "setflags", !.h = h, !.arg = flags,
                   !.rkind = "unit", !.cref = cookie, !.cmask = mask,
                   !.nint = n.ret, !.ncalls = 1,
                   !.preCloses = magic[cookie].closes,
                   !.preFlags = magic[cookie].flags, !.cause = n.cause]
     /\ hist' = [hist EXCEPT ![h] = OtherHist]
     /\ UNCHANGED <<cookies, allocated>>
     /\ CfUnchanged

\* ------------------------------------ Cookie::check / compile / list / load
\* as_c_str(filename, |filename| magic_xxx(cookie, filename)) == 0
admin_ret(code) == code = 0

admin(name, h, filename, n) ==
  LET cookie == cookies[h].cookie
  IN /\ Live(h)
     /\ magic' = [magic EXCEPT ![cookie] = n.ctx]
     /\ last' = [NoCall EXCEPT !.op = name, !.h = h, !.arg = filename,
                   !.rkind = "bool", !.cref = cookie,
                   !.cstr = as_c_str(filename),
                   !.nint = n.ret, !.ok = admin_ret(n.ret), !.ncalls = 1,
                   !.preCloses = magic[cookie].closes,
                   !.preFlags = magic[cookie].flags, !.cause = n.cause]
     /\ hist' = [hist EXCEPT ![h] = OtherHist]
     /\ UNCHANGED <<cookies, allocated>>
     /\ CfUnchanged

check(h, filename, nd) ==
  admin("check", h, filename,
        magic_check(magic[cookies[h].cookie], as_c_str(filename), nd))

compile(h, filename, nd) ==
  admin("compile", h, filename,
        magic_compile(magic[cookies[h].cookie], as_c_str(filename), nd))

list(h, filename, nd) ==
  admin("list", h, filename,
        magic_list(magic[cookies[h].cookie], as_c_str(filename), nd))

load(h, filename, nd) ==
  admin("load", h, filename,
        magic_load(magic[cookies[h].cookie], as_c_str(filename), nd))

\* ---------------------------------------------------------- Drop for Cookie
finalize_leak(ctx) == ctx

\* fn finalize(&self) { unsafe { magic_close(self.cookie) } }
finalize(ctx) == magic_close(ctx)

\* the destructor run on h; the Cookie keeps its pointer (finalize takes
\* &self and cannot clear it)
RunFinalize(name, h, after) ==
  LET cookie == cookies[h].cookie
  IN /\ Live(h)
     /\ magic' = [magic EXCEPT ![cookie] = finalize(magic[cookie])]
     /\ cookies' = [cookies EXCEPT ![h].state = after]
     /\ last' = [NoCall EXCEPT !.op = name, !.h = h, !.cref = cookie,
                   !.ncalls = 1, !.preCloses = magic[cookie].closes,
                   !.preFlags = magic[cookie].flags]
     /\ hist' = [hist EXCEPT ![h] = OtherHist]
     /\ UNCHANGED allocated
     /\ CfUnchanged

\* cookie.finalize() written out by the owner: the value stays in scope
explicit_finalize(h) ==
  /\ magic[cookies[h].cookie].closes + 1 < MaxCloses
  /\ RunFinalize("finalize", h, "live")

\* the owning scope ends normally: the destructor runs
scope_exit(h) == RunFinalize("scope_exit", h, "dropped")

\* the owning task fails (fail_unless!) and unwinds: the destructor runs
unwind(h) == RunFinalize("unwind", h, "dropped")

\* ------------------------------------------------------------------- Spec
Next ==
  \/ \E f \in OptionInputs, nd \in BOOLEAN : open(f, nd)
  \/ \E h \in Handles : \E p \in Paths, nd \in Outcomes(h) : file(h, p, nd)
  \/ \E h \in Handles, b \in Buffers, nd \in BOOLEAN : buffer(h, b, nd)
  \/ \E h \in Handles : \E nd \in Outcomes(h) : error(h, nd)
  \/ \E h \in Handles, f \in OptionInputs, nd \in BOOLEAN : setflags(h, f, nd)
  \/ \E h \in Handles : \E p \in DbPaths, nd \in Outcomes(h) : check(h, p, nd)
  \/ \E h \in Handles : \E p \in DbPaths, nd \in Outcomes(h) : compile(h, p, nd)
  \/ \E h \in Handles : \E p \in DbPaths, nd \in Outcomes(h) : list(h, p, nd)
  \/ \E h \in Handles : \E p \in DbPaths, nd \in Outcomes(h) : load(h, p, nd)
  \/ \E h \in Handles : explicit_finalize(h)
  \/ \E h \in Handles : scope_exit(h)
  \/ \E h \in Handles : unwind(h)

Spec == Init /\ [][Next]_vars

\* every scope that holds a Cookie ends: by returning or by unwinding
FairSpec == Spec /\ \A h \in Handles : WF_vars(scope_exit(h))

\* ----------------------------------------- combine_flags as a pure function
InitCombine ==
  /\ InitCookies
  /\ cf_flags \in SeqsUpTo(MagicFlag, MaxLen)

CombineStep ==
  /\ cf_pc = "start"
  /\ cf_mask' = combine_flags(cf_flags)
  /\ cf_pc' = "done"
  /\ UNCHANGED <<cookies, magic, allocated, last, hist, cf_flags>>

NextCombine == CombineStep

SpecCombine == InitCombine /\ [][NextCombine]_vars

\* ----------------------------------------------------------- vocabulary
Range(q) == {q[i] : i \in DOMAIN q}

StringOps == {"file", "buffer", "error"}
AdminOps  == {"check", "compile", "list", "load"}
PathOps   == {"file"} \cup AdminOps
UseOps    == StringOps \cup AdminOps \cup {"setflags"}

\* the native entry point reported its failure sentinel
NativeFailed(c) ==
  \/ c.op \in StringOps /\ c.nptr = NULL
  \/ c.op \in AdminOps \cup {"setflags"} /\ c.nint # 0

\* what the caller got back is a failure outcome
CallerSeesFailure(c) ==
  \/ c.rkind = "option" /\ ~c.result.some
  \/ c.rkind = "bool" /\ ~c.ok

HasInteriorNul(s) == \E i \in DOMAIN s : s[i] = NUL

\* t occurs in s as a contiguous run of bytes
Contains(s, t) ==
  \E i \in 0 .. (Len(s) - Len(t)) : SubSeq(s, i + 1, i + Len(t)) = t

\* value bit k is set in mask exactly when one of the flags has it; the mask
\* is not negative
BitsAreUnion(mask, flags) ==
  /\ mask >= 0
  /\ \A k \in 0 .. (CIntBits - 2) :
       HasBit(mask, 2 ^ k) <=> \E f \in Range(flags) : HasBit(f, 2 ^ k)

\* q with the entries at i and j exchanged; every reordering of q is a
\* chain of such exchanges
Swap(q, i, j) ==
  [k \in 1 .. Len(q) |-> IF k = i THEN q[j] ELSE IF k = j THEN q[i] ELSE q[k]]

\* ------------------------------------------------------------------ claims

C2_EventuallyReleased ==
  \A h \in Handles :
    (cookies[h].state = "live")
      ~> (cookies[h].state = "dropped" /\ magic[cookies[h].cookie].closes >= 1)

C2_Witness ==
  \E h \in Handles :
    /\ cookies[h].state = "dropped"
    /\ magic[cookies[h].cookie].closes = 1
    /\ last.op = "unwind"
    /\ last.h = h

C4_OpenNullIffFailure ==
  [][ /\ last'.op = "open" =>
           /\ ~last'.result.some <=> last'.nref = NULLREF
           /\ ~last'.result.some => cookies' = cookies
           /\ last'.result.some =>
                /\ last'.h \in Handles
                /\ cookies[last'.h].state = "unborn"
                /\ cookies' = [cookies EXCEPT ![last'.h] =
                                 [state |-> "live", cookie |-> last'.nref]]
      /\ \A h \in Handles :
           cookies'[h].state # "unborn" => cookies'[h].cookie # NULLREF
      /\ magic'[NULLREF].closes = 0 ]_vars

C4_Witness ==
  /\ last.op = "open"
  /\ last.nref = NULLREF
  /\ ~last.result.some
  /\ \A h \in Handles : cookies[h].state = "unborn"

\* C5: whenever the native entry point behind detect_file, detect_buffer,
\* set_options, check, compile, list or load returns its failure sentinel,
\* the caller gets a failure outcome (None or false) from that call.
C5_FailureSurfaced ==
  (last.op \in {"file", "buffer", "setflags"} \cup AdminOps /\ NativeFailed(last))
    => CallerSeesFailure(last)

\* C6: when the last call on a Cookie was a detect_file that the native
\* layer failed because it could not open the path, that call returned None
\* and carried no text, and a last_error on the same Cookie made next
\* returns Some(message) where the message names the file the native layer
\* tried to open.
C6_ErrorAfterFailedFile ==
  [][ /\ (last'.op = "file" /\ last'.cause = "open") => last'.result = None
      /\ \A h \in Handles :
           (/\ hist[h].op = "file"
            /\ last'.op = "error"
            /\ last'.h = h)
           => /\ last'.result.some
              /\ Contains(last'.result.text, CStrBytes(as_c_str(hist[h].arg)))
              /\ Head(last'.result.text) = T_OPEN ]_vars

C6_Witness ==
  /\ last.op = "error"
  /\ last.result = Some(<<T_OPEN>> \o MissingPath)

\* C7: a path with an interior NUL makes detect_file, check, compile, list
\* and load report failure without invoking the native entry point.
C7_FailClosed ==
  (last.op \in PathOps /\ HasInteriorNul(last.arg))
    => (last.ncalls = 0 /\ CallerSeesFailure(last))

\* C8: combine_flags returns the bitwise OR of the flags given, starting
\* from zero: zero for the empty slice, and the same mask for every
\* reordering of the slice and with any of its entries repeated.  The mask
\* is fixed by the set of flags in the slice; exchanging any two entries of
\* any slice keeps it, and so does every chain of exchanges.
C8_CombineIsOr ==
  cf_pc = "done" =>
    /\ BitsAreUnion(cf_mask, cf_flags)
    /\ cf_flags = <<>> => cf_mask = 0
    /\ \A i, j \in DOMAIN cf_flags :
         i < j => combine_flags(Swap(cf_flags, i, j)) = cf_mask
    /\ \A f \in Range(cf_flags) :
         /\ combine_flags(Append(cf_flags, f)) = cf_mask
         /\ combine_flags(<<f>> \o cf_flags) = cf_mask

C8_Witness ==
  /\ cf_pc = "done"
  /\ cf_flags = <<MAGIC_MIME_ENCODING, MAGIC_MIME_TYPE, MAGIC_MIME_TYPE>>
  /\ cf_mask = MAGIC_MIME

\* C9: detect_file, detect_buffer and last_error return None exactly when
\* the native entry point returned null and otherwise Some of the returned
\* string's text; each makes one native call, and detect_buffer passes the
\* length of the bytes it was given.
C9_NullIsNone ==
  last.op \in StringOps =>
    /\ last.result.some <=> last.nptr # NULL
    /\ last.result.some => last.nptr = last.result.text \o <<NUL>>
    /\ ~last.result.some => last.result.text = <<>>
    /\ last.ncalls = 1
    /\ last.op = "buffer" => (last.clen = Len(last.arg) /\ last.cstr = last.arg)

C9_Witness ==
  /\ last.op = "buffer"
  /\ last.arg = <<3, 0>>
  /\ last.clen = 2
  /\ last.result.some
  /\ last.cause = "none"

\* C10: a set_options call the native layer accepts leaves the context's
\* mask equal to combine(options), whatever it was before; every other
\* operation leaves the mask as it was, and a detection reads that mask.
C10_SetflagsReplaces ==
  [][ /\ (last'.op = "setflags" /\ last'.cause = "none" /\ last'.nint = 0)
           => magic'[last'.cref].flags = combine_flags(last'.arg)
      /\ last'.op \in StringOps \cup AdminOps
           => magic'[last'.cref].flags = magic[last'.cref].flags
      /\ (last'.op \in UseOps)
           => \A r \in Refs : r # last'.cref => magic'[r] = magic[r]
      /\ (last'.op = "file" /\ last'.cause = "none")
           => last'.result = Some(DescText(magic[last'.cref].flags, T_FILE)) ]_vars

C10_Witness ==
  /\ last.op = "setflags"
  /\ last.cause = "none"
  /\ last.nint = 0
  /\ last.arg = <<MAGIC_NONE>>
  /\ last.preFlags = MAGIC_MIME
  /\ magic[last.cref].flags = 0

====
